---- MODULE Spec2Model ----
(***************************************************************************)
(* Model of the asynchronous rendering pipeline of the PDF editor core:    *)
(* RenderJob (status / wait / cancel / get_result), AsyncRenderer          *)
(* (queue_render / queue_batch / pending_count / cancel_all / wait_all)    *)
(* and Document::get_page, as implemented in src/core/src/renderer.cpp     *)
(* and src/core/src/document.cpp.                                          *)
(*                                                                         *)
(* Every critical section guarded by RenderJob::Impl::mutex is one atomic  *)
(* action.  A thread inside std::condition_variable::wait / wait_for is    *)
(* at pc = "wait"; it leaves that state by a notification (WaitWake) or by *)
(* the expiry of its timeout (WaitTimeout).  A spurious wake-up re-tests   *)
(* the predicate under the lock and, finding it false, blocks again: it    *)
(* leaves the state unchanged and is a stuttering step of the model.       *)
(***************************************************************************)
EXTENDS Integers, Sequences, FiniteSets, TLC

\* ---------------------------------------------------------------- bounds
MaxJobs == 1
NumThreads == 2
MaxPages == 1
MaxBatch == 2
\* PDFViewer::zoom_ is counted in 1/ZoomDen
ZoomDen == 1000
DocPages == 3

Threads == 1..NumThreads
\* timeout_ms arguments: negative (wait indefinitely), zero, positive
Timeouts == {-1, 0, 1}
\* page indices a caller may pass: below range, in range, above range
Indices == (-1)..MaxPages
\* indices of the document whose pages are requested in any order
DocIndices == (-1)..DocPages
\* Page* arguments of queue_render: 0 is nullptr
PagePtrs == 0..1

VARIABLES
    pageCount,  \* Document::Impl: what page_count() returns for the open document
    pages_,     \* Document::Impl::pages_: vector of Page pointers, 0 = empty slot
    jobs,       \* every RenderJob created so far: its Impl fields
    pc,         \* per client thread: "idle"; "wait" / "wait_for" (blocked on the
                \* cv in wait()); "gr_wait" (blocked in the wait() that
                \* get_result() calls); "gr_lock" (in get_result(), wait() returned)
    tjob,       \* per thread: the job its call in progress is on (0: none)
    notified,   \* per thread: a notify_all reached it while it was blocked
    entry,      \* per thread: the job's Impl fields when its wait() began
    ret,        \* the most recent return of a RenderJob call, with its value
    cancelledPending, \* history: the jobs cancel() was called on while Pending
    batch,      \* the last queue_batch call: request and returned jobs
    lastCall,   \* the last AsyncRenderer call and its return value
    useMupdf,   \* the build: TRUE when compiled with USE_MUPDF
    cache_enabled_, \* Renderer::Impl::cache_enabled_
    cache_,     \* Renderer::Impl::cache_: the page handles it holds a buffer for
    rendered,   \* history: the pages rasterized so far, oldest first
    rcall,      \* the last Renderer call: its arguments and what it returned
    cache_size_mb_, \* Renderer::Impl::cache_size_mb_
    thread_count_,  \* Renderer::Impl::thread_count_
    cache_mutex_,   \* Renderer::Impl::cache_mutex_: the thread holding it (0: free)
    racc,       \* per thread: the Renderer member its call in progress is
                \* reading or writing, and whether it holds cache_mutex_
    document_,  \* PDFViewer::document_: FALSE is nullptr, TRUE the open Document
    currentPage_,   \* PDFViewer::currentPage_
    zoom_,      \* PDFViewer::zoom_, in 1/ZoomDen
    renderQuality_, \* PDFViewer::renderQuality_
    viewMode_,  \* PDFViewer::viewMode_
    pageCache_, \* PDFViewer::pageCache_: page index -> the image kept for it
    pageWidgets_    \* PDFViewer::pageWidgets_: per widget, the image it shows

vars == <<pageCount, pages_, jobs, pc, tjob, notified, entry, ret,
          cancelledPending, batch, lastCall,
          useMupdf, cache_enabled_, cache_, rendered, rcall,
          cache_size_mb_, thread_count_, cache_mutex_, racc,
          document_, currentPage_, zoom_, renderQuality_, viewMode_,
          pageCache_, pageWidgets_>>

docVars == <<pageCount, pages_>>
thrVars == <<pc, tjob, notified, entry>>
rendVars == <<useMupdf, cache_enabled_, cache_, rendered, rcall>>
concVars == <<cache_size_mb_, thread_count_, cache_mutex_, racc>>
viewVars == <<document_, currentPage_, zoom_, renderQuality_, viewMode_,
              pageCache_, pageWidgets_>>
extVars == <<concVars, viewVars>>

\* a thread with no Renderer call in progress
NoAccess == [op |-> "none"]
\* a PageWidget that was given no image
NoPicture == [page |-> -1, zoom |-> 0, quality |-> "none"]
\* an empty QMap<int, QPixmap>
EmptyCache == [k \in {} |-> NoPicture]
jobVars == <<jobs, pc, tjob, notified, entry, ret, cancelledPending, batch,
             lastCall>>

\* ------------------------------------------------------ RenderJob::Impl
NullBuf == "null"

NewJob == [status |-> "Pending", progress |-> 0, result |-> NullBuf]

IsTerminal(s) == s \in {"Completed", "Failed", "Cancelled"}

JobIds == 1..Len(jobs)

NoRet == [op |-> "none"]

WaitPcs == {"wait", "wait_for", "gr_wait"}

\* ------------------------------------------------------------- Document
\* Document::get_page: the pointer returned (0 = nullptr) and the new pages_.
\* A Page created by `new Page()` is named by its order of creation.
Allocated(ps) == Cardinality({i \in 1..Len(ps) : ps[i] # 0})

Resize(ps, n) ==
    [i \in 1..n |-> IF i <= Len(ps) THEN ps[i] ELSE 0]

\* get_page making a new Page on every call in range
get_page_always_new(ps, index) ==
    IF index < 0 \/ index >= pageCount
    THEN [page |-> 0, pages |-> ps]
    ELSE LET sized == IF index >= Len(ps) THEN Resize(ps, pageCount) ELSE ps
             filled == [sized EXCEPT ![index + 1] = Allocated(ps) + 1]
         IN [page |-> filled[index + 1], pages |-> filled]

get_page(ps, index) ==
    IF index < 0 \/ index >= pageCount
    THEN [page |-> 0, pages |-> ps]
    ELSE LET sized == IF index >= Len(ps) THEN Resize(ps, pageCount) ELSE ps
             filled == IF sized[index + 1] = 0
                       THEN [sized EXCEPT ![index + 1] = Allocated(ps) + 1]
                       ELSE sized
         IN [page |-> filled[index + 1], pages |-> filled]

\* A client calls get_page(index); `before` is pages_ as the call found it.
GetPageReturns(index, r) ==
    /\ pages_' = r.pages
    /\ rcall' = [op |-> "get_page", index |-> index, out |-> r.page,
                 before |-> pages_]
    /\ UNCHANGED <<extVars, pageCount, jobVars, useMupdf, cache_enabled_, cache_, rendered>>

GetPage == \E index \in DocIndices : GetPageReturns(index, get_page(pages_, index))

\* -------------------------------------------------------- RenderJob::wait
\* The thread returns from wait(): to its caller get_result(), or to the client.
WaitReturn(t, val, elapsed) ==
    /\ pc' = [pc EXCEPT ![t] = IF pc[t] = "gr_wait" THEN "gr_lock" ELSE "idle"]
    /\ tjob' = [tjob EXCEPT ![t] = IF pc[t] = "gr_wait" THEN tjob[t] ELSE 0]
    /\ ret' = IF pc[t] = "gr_wait" THEN ret
              ELSE [op |-> "wait", t |-> t, job |-> tjob[t], val |-> val,
                    timed |-> (pc[t] = "wait_for"), elapsed |-> elapsed,
                    before |-> entry[t]]
    /\ notified' = [notified EXCEPT ![t] = FALSE]
    /\ entry' = [entry EXCEPT ![t] = NewJob]

\* wait(timeout_ms): lock, test the predicate, return true or block on the cv.
WaitCall(t) ==
    /\ pc[t] = "idle"
    /\ \E j \in JobIds, timeout_ms \in Timeouts :
         IF IsTerminal(jobs[j].status)
         THEN /\ ret' = [op |-> "wait", t |-> t, job |-> j, val |-> TRUE,
                         timed |-> (timeout_ms >= 0), elapsed |-> FALSE,
                         before |-> jobs[j]]
              /\ UNCHANGED <<extVars, pc, tjob, entry>>
         ELSE /\ pc' = [pc EXCEPT ![t] =
                          IF timeout_ms < 0 THEN "wait" ELSE "wait_for"]
              /\ tjob' = [tjob EXCEPT ![t] = j]
              /\ entry' = [entry EXCEPT ![t] = jobs[j]]
              /\ UNCHANGED ret
    /\ UNCHANGED <<extVars, rendVars, docVars, jobs, notified, cancelledPending, batch, lastCall>>

\* A notified waiter re-acquires the lock and re-tests the predicate.
WaitWake(t) ==
    /\ pc[t] \in WaitPcs
    /\ notified[t]
    /\ IF IsTerminal(jobs[tjob[t]].status)
       THEN WaitReturn(t, TRUE, FALSE)
       ELSE /\ notified' = [notified EXCEPT ![t] = FALSE]
            /\ UNCHANGED <<extVars, pc, tjob, entry, ret>>
    /\ UNCHANGED <<extVars, rendVars, docVars, jobs, cancelledPending, batch, lastCall>>

\* wait_for: the timeout elapses; the value returned is the predicate's.
WaitTimeoutNoRecheck(t) ==
    /\ pc[t] = "wait_for"
    /\ WaitReturn(t, FALSE, TRUE)
    /\ UNCHANGED <<extVars, rendVars, docVars, jobs, cancelledPending, batch, lastCall>>

WaitTimeoutCancels(t) ==
    /\ pc[t] = "wait_for"
    /\ WaitReturn(t, IsTerminal(jobs[tjob[t]].status), TRUE)
    /\ jobs' = [jobs EXCEPT ![tjob[t]].status =
                  IF IsTerminal(@) THEN @ ELSE "Cancelled"]
    /\ UNCHANGED <<extVars, rendVars, docVars, cancelledPending, batch, lastCall>>

WaitTimeout(t) ==
    /\ pc[t] = "wait_for"
    /\ WaitReturn(t, IsTerminal(jobs[tjob[t]].status), TRUE)
    /\ UNCHANGED <<extVars, rendVars, docVars, jobs, cancelledPending, batch, lastCall>>

\* ------------------------------------------------------ RenderJob::cancel
Blocked(j) == {u \in Threads : pc[u] \in WaitPcs /\ tjob[u] = j}

\* What every cancel() call leaves behind, whatever it does to the job.
CancelRecord(t, j) ==
    /\ ret' = [op |-> "cancel", t |-> t, job |-> j, was |-> jobs[j].status]
    /\ cancelledPending' =
         IF jobs[j].status = "Pending"
         THEN cancelledPending \cup {j} ELSE cancelledPending
    /\ UNCHANGED <<extVars, rendVars, docVars, pc, tjob, entry, batch, lastCall>>

CancelRunningOnly(t) ==
    /\ pc[t] = "idle"
    /\ \E j \in JobIds :
         /\ CancelRecord(t, j)
         /\ IF jobs[j].status = "Running"
            THEN /\ jobs' = [jobs EXCEPT ![j].status = "Cancelled"]
                 /\ notified' = [u \in Threads |-> notified[u] \/ u \in Blocked(j)]
            ELSE UNCHANGED <<extVars, jobs, notified>>

CancelNoNotify(t) ==
    /\ pc[t] = "idle"
    /\ \E j \in JobIds :
         /\ CancelRecord(t, j)
         /\ IF jobs[j].status = "Pending" \/ jobs[j].status = "Running"
            THEN /\ jobs' = [jobs EXCEPT ![j].status = "Cancelled"]
                 /\ UNCHANGED notified
            ELSE UNCHANGED <<extVars, jobs, notified>>

\* cancel(): under the lock, a Pending or Running job becomes Cancelled and
\* notify_all reaches every thread blocked on the job's cv.
Cancel(t) ==
    /\ pc[t] = "idle"
    /\ \E j \in JobIds :
         /\ CancelRecord(t, j)
         /\ IF jobs[j].status = "Pending" \/ jobs[j].status = "Running"
            THEN /\ jobs' = [jobs EXCEPT ![j].status = "Cancelled"]
                 /\ notified' = [u \in Threads |-> notified[u] \/ u \in Blocked(j)]
            ELSE UNCHANGED <<extVars, jobs, notified>>

\* -------------------------------------------------- RenderJob::get_result
GetResultCallNoWait(t) ==
    /\ pc[t] = "idle"
    /\ \E j \in JobIds :
         /\ tjob' = [tjob EXCEPT ![t] = j]
         /\ pc' = [pc EXCEPT ![t] = "gr_lock"]
    /\ UNCHANGED <<extVars, rendVars, docVars, jobs, notified, entry, ret, cancelledPending,
                   batch, lastCall>>

\* get_result() begins with wait(): lock, test the predicate, go on or block.
GetResultCall(t) ==
    /\ pc[t] = "idle"
    /\ \E j \in JobIds :
         /\ tjob' = [tjob EXCEPT ![t] = j]
         /\ pc' = [pc EXCEPT ![t] =
                     IF IsTerminal(jobs[j].status) THEN "gr_lock" ELSE "gr_wait"]
    /\ UNCHANGED <<extVars, rendVars, docVars, jobs, notified, entry, ret, cancelledPending,
                   batch, lastCall>>

\* The Result built from a job: the buffer moved out of it, or RenderError.
ResultOf(t, j) ==
    IF jobs[j].status = "Completed"
    THEN [op |-> "get_result", t |-> t, job |-> j, ok |-> TRUE,
          code |-> "Success", buffer |-> jobs[j].result, at |-> jobs[j].status]
    ELSE [op |-> "get_result", t |-> t, job |-> j, ok |-> FALSE,
          code |-> "RenderError", buffer |-> NullBuf, at |-> jobs[j].status]

GetResultFinishMarksFailed(t) ==
    /\ pc[t] = "gr_lock"
    /\ ret' = ResultOf(t, tjob[t])
    /\ jobs' = [jobs EXCEPT ![tjob[t]] =
                  IF @.status = "Completed"
                  THEN [@ EXCEPT !.result = NullBuf]
                  ELSE [@ EXCEPT !.status = "Failed"]]
    /\ pc' = [pc EXCEPT ![t] = "idle"]
    /\ tjob' = [tjob EXCEPT ![t] = 0]
    /\ UNCHANGED <<extVars, rendVars, docVars, notified, entry, cancelledPending, batch, lastCall>>

\* After wait() has returned: lock again and build the Result.  std::move
\* leaves the job's unique_ptr empty.
GetResultFinish(t) ==
    /\ pc[t] = "gr_lock"
    /\ ret' = ResultOf(t, tjob[t])
    /\ jobs' = [jobs EXCEPT ![tjob[t]] =
                  IF @.status = "Completed"
                  THEN [@ EXCEPT !.result = NullBuf]
                  ELSE @]
    /\ pc' = [pc EXCEPT ![t] = "idle"]
    /\ tjob' = [tjob EXCEPT ![t] = 0]
    /\ UNCHANGED <<extVars, rendVars, docVars, notified, entry, cancelledPending, batch, lastCall>>

\* ----------------------------------------------------------- AsyncRenderer
\* queue_render: a fresh RenderJob; the page and the options are not used.
queue_render(js, page) == Append(js, NewJob)

QueueRender ==
    /\ Len(jobs) < MaxJobs
    /\ \E page \in PagePtrs :
         /\ jobs' = queue_render(jobs, page)
         /\ lastCall' = [op |-> "queue_render", val |-> Len(jobs) + 1]
    /\ UNCHANGED <<extVars, rendVars, docVars, thrVars, ret, cancelledPending, batch>>

\* The state of one queue_batch call: pages_, the jobs, the vector returned
\* (out) and the indices a job was pushed for (served).
BatchStart == [pages |-> pages_, jobs |-> jobs, out |-> <<>>, served |-> <<>>]

BatchPush(st, got, idx) ==
    [pages |-> got.pages,
     jobs |-> queue_render(st.jobs, got.page),
     out |-> Append(st.out, Len(st.jobs) + 1),
     served |-> Append(st.served, idx)]

RECURSIVE BatchLoopNoSkip(_, _)
BatchLoopNoSkip(st, rest) ==
    IF rest = <<>> THEN st
    ELSE BatchLoopNoSkip(BatchPush(st, get_page(st.pages, Head(rest)), Head(rest)),
                         Tail(rest))

queue_batch_noskip(page_indices) == BatchLoopNoSkip(BatchStart, page_indices)

\* queue_batch: the loop over page_indices; a null page is skipped.
RECURSIVE BatchLoop(_, _)
BatchLoop(st, rest) ==
    IF rest = <<>> THEN st
    ELSE LET got == get_page(st.pages, Head(rest)) IN
         IF got.page # 0
         THEN BatchLoop(BatchPush(st, got, Head(rest)), Tail(rest))
         ELSE BatchLoop([st EXCEPT !.pages = got.pages], Tail(rest))

queue_batch(page_indices) == BatchLoop(BatchStart, page_indices)

IndexLists == UNION {[1..n -> Indices] : n \in 0..MaxBatch}

QueueBatch ==
    \E page_indices \in IndexLists :
      LET r == queue_batch(page_indices) IN
        /\ Len(jobs) < MaxJobs
        /\ jobs' = r.jobs
        /\ pages_' = r.pages
        /\ batch' = [req |-> page_indices, jobs |-> r.out, served |-> r.served,
                     created |-> Len(r.jobs) - Len(jobs)]
        /\ lastCall' = [op |-> "queue_batch", val |-> Len(r.out)]
        /\ UNCHANGED <<extVars, rendVars, pageCount, thrVars, ret, cancelledPending>>

\* pending_count(): the stub returns 0.
pending_count == 0

PendingCount ==
    /\ lastCall' = [op |-> "pending_count", val |-> pending_count]
    /\ UNCHANGED <<extVars, rendVars, docVars, jobs, thrVars, ret, cancelledPending, batch>>

\* cancel_all(): the body is empty.
CancelAll ==
    /\ lastCall' = [op |-> "cancel_all", val |-> 0]
    /\ UNCHANGED <<extVars, rendVars, docVars, jobs, thrVars, ret, cancelledPending, batch>>

\* wait_all(): the body is empty; it returns at once.
WaitAll ==
    /\ lastCall' = [op |-> "wait_all", val |-> 0]
    /\ UNCHANGED <<extVars, rendVars, docVars, jobs, thrVars, ret, cancelledPending, batch>>

\* ------------------------------------------------- float (IEEE-754 binary32)
\* The renderer's geometry is computed in `float`.  A float is the record
\* [sgn, man, exp] of value sgn * man * 2^exp with man = 0 or
\* 2^(MantBits-1) <= man < 2^MantBits; every operation rounds its exact
\* result to nearest, ties to even.  Subnormals, infinities and NaN are out of
\* the range of the inputs the model draws.

MantBits == 24

FZero == [sgn |-> 1, man |-> 0, exp |-> 0]

BitLen(m) == CHOOSE k \in 0..30 : m < 2^k /\ (k = 0 \/ m >= 2^(k - 1))

\* q, or q + 1 when the rest r (of half-way value half) rounds up
RoundedQuot(q, r, half, sticky) ==
    IF r > half \/ (r = half /\ (sticky \/ q % 2 = 1)) THEN q + 1 ELSE q

\* a rounded significand that reached 2^MantBits is renormalised
Carry(sgn, q, e) ==
    IF q = 2^MantBits THEN [sgn |-> sgn, man |-> 2^(MantBits - 1), exp |-> e + 1]
    ELSE [sgn |-> sgn, man |-> q, exp |-> e]

\* k: the bits m has beyond MantBits
Pack(sgn, m, e, sticky, k) ==
    IF k <= 0 THEN [sgn |-> sgn, man |-> m * 2^(-k), exp |-> e + k]
    ELSE Carry(sgn, RoundedQuot(m \div 2^k, m % 2^k, 2^(k - 1), sticky), e + k)

\* The float nearest to sgn * (m + s) * 2^e, where 0 <= s < 1 and s > 0 iff
\* sticky.
RoundPack(sgn, m, e, sticky) ==
    IF m = 0 THEN FZero ELSE Pack(sgn, m, e, sticky, BitLen(m) - MantBits)

\* int -> float conversion
FromInt(n) == IF n < 0 THEN RoundPack(-1, -n, 0, FALSE) ELSE RoundPack(1, n, 0, FALSE)

\* float -> int conversion, static_cast<int>(f): truncation towards zero
ToInt(f) ==
    IF f.man = 0 \/ f.exp <= -MantBits THEN 0
    ELSE IF f.exp >= 0 THEN f.sgn * f.man * 2^f.exp
    ELSE f.sgn * (f.man \div 2^(-f.exp))

IsWhole(f) == f.man = 0 \/ f.exp >= 0
                \/ (f.exp > -MantBits /\ f.man % 2^(-f.exp) = 0)

\* static_cast<int>(std::ceil(f))
CeilToInt(f) == IF f.sgn = 1 /\ ~IsWhole(f) THEN ToInt(f) + 1 ELSE ToInt(f)

\* the 48-bit product hi * 2^24 + low of two significands, rounded
MulPack(hi, low, sgn, e) ==
    RoundPack(sgn, (hi + low \div 2^24) * 16 + (low % 2^24) \div 2^20, e + 20,
              (low % 2^24) % 2^20 # 0)

\* hh, mid, ll: the partial products of the 12-bit limbs
MulSum(hh, mid, ll, sgn, e) ==
    MulPack(hh + mid \div 4096, (mid % 4096) * 4096 + ll, sgn, e)

MulLimbs(ah, al, bh, bl, sgn, e) ==
    MulSum(ah * bh, ah * bl + al * bh, al * bl, sgn, e)

\* a * b
FMul(a, b) ==
    IF a.man = 0 \/ b.man = 0 THEN FZero
    ELSE MulLimbs(a.man \div 4096, a.man % 4096, b.man \div 4096, b.man % 4096,
                  a.sgn * b.sgn, a.exp + b.exp)

\* long division: after n steps q = floor(num * 2^(n-1) / den), r the rest
RECURSIVE DivSteps(_, _, _, _)
DivSteps(n, q, r, den) ==
    IF n = 0 THEN <<q, r>>
    ELSE IF r >= den THEN DivSteps(n - 1, 2 * q + 1, 2 * (r - den), den)
    ELSE DivSteps(n - 1, 2 * q, 2 * r, den)

DivPack(d, sgn, e) == RoundPack(sgn, d[1], e, d[2] # 0)

\* a / b, b # 0
FDiv(a, b) ==
    IF a.man = 0 THEN FZero
    ELSE DivPack(DivSteps(27, 0, a.man, b.man), a.sgn * b.sgn, a.exp - b.exp - 26)

FNeg(a) == IF a.man = 0 THEN a ELSE [a EXCEPT !.sgn = -a.sgn]

\* |a| >= |b| for non-zero a, b
MagGeq(a, b) == a.exp > b.exp \/ (a.exp = b.exp /\ a.man >= b.man)

\* the bits shifted out of the smaller operand are kept as a sticky bit in
\* the last place
JamBits(kept, lost) == IF lost # 0 /\ kept % 2 = 0 THEN kept + 1 ELSE kept
Jam(v, d) == IF d >= 27 THEN 1 ELSE JamBits(v \div 2^d, v % 2^d)

AddAligned(x, X, Y, ysgn) ==
    RoundPack(x.sgn, IF x.sgn = ysgn THEN X + Y ELSE X - Y, x.exp - 3, FALSE)

\* x + y for |x| >= |y|, with three guard bits
AddOrdered(x, y) == AddAligned(x, x.man * 8, Jam(y.man * 8, x.exp - y.exp), y.sgn)

\* a + b
FAdd(a, b) ==
    IF a.man = 0 THEN b
    ELSE IF b.man = 0 THEN a
    ELSE IF MagGeq(a, b) THEN AddOrdered(a, b)
    ELSE AddOrdered(b, a)

FSub(a, b) == FAdd(a, FNeg(b))

\* a < b
FLess(a, b) == FSub(a, b).sgn = -1

\* the float nearest to the rational n / d (a decimal literal or a size in
\* fractions of a point), d > 0
FRat(n, d) == FDiv(FromInt(n), FromInt(d))

\* --------------------------------------------------------------------- Page
\* A Page* argument: nullptr, or a page with its MuPDF handle (0 = the null
\* handle Document::get_page leaves in a page, 1.. = a loaded fz_page) and,
\* for a loaded page, the size fz_bound_page reports, in 1/Den pt.

Den == 4
MaxSize == 10
MaxTile == 2
MaxTiles == 12
GridN == 2

NullPage == [null |-> TRUE, handle |-> 0, wq |-> 0, hq |-> 0]

PageObj(handle, wq, hq) == [null |-> FALSE, handle |-> handle, wq |-> wq, hq |-> hq]

Page_width(page) ==
    IF useMupdf
    THEN IF page.handle = 0 THEN FZero ELSE FRat(page.wq, Den)
    ELSE FromInt(595)

Page_height(page) ==
    IF useMupdf
    THEN IF page.handle = 0 THEN FZero ELSE FRat(page.hq, Den)
    ELSE FromInt(842)

Min(a, b) == IF a < b THEN a ELSE b

\* the sizes drawn: a grid of small pages, US Letter and A4 (595.25 x 842 pt)
SmallSizes == {<<w, h>> : w \in 0..MaxSize, h \in {0, 1, MaxSize - 1, MaxSize}}
PaperSizes == {<<612 * Den, 792 * Den>>, <<595 * Den + 1, 842 * Den>>}
TilePages ==
    {NullPage, PageObj(0, 0, 0)} \cup {PageObj(1, s[1], s[2]) : s \in SmallSizes}
GeomPages == TilePages \cup {PageObj(1, s[1], s[2]) : s \in PaperSizes}

Dpis == {72, 96, 100, 150, 300}

\* ------------------------------------------------- Renderer: tile geometry

\* tile number i (from 1) of the row-major list
TileAt(i, cols, page_width, page_height, tile_width, tile_height) ==
    LET row == (i - 1) \div cols
        col == (i - 1) % cols
    IN  [tile_x |-> col, tile_y |-> row,
         tile_width |-> tile_width, tile_height |-> tile_height,
         page_rect |->
            [x0 |-> FromInt(col * tile_width),
             y0 |-> FromInt(row * tile_height),
             x1 |-> FromInt(Min((col + 1) * tile_width, ToInt(page_width))),
             y1 |-> FromInt(Min((row + 1) * tile_height, ToInt(page_height)))]]

TileCols(page, tile_width) ==
    CeilToInt(FDiv(Page_width(page), FromInt(tile_width)))

TileRows(page, tile_height) ==
    CeilToInt(FDiv(Page_height(page), FromInt(tile_height)))

calculate_tiles(page, tile_width, tile_height) ==
    IF page.null THEN <<>>
    ELSE LET page_width  == Page_width(page)
             page_height == Page_height(page)
             cols == TileCols(page, tile_width)
             rows == TileRows(page, tile_height)
         IN  [i \in 1..(rows * cols) |->
                TileAt(i, cols, page_width, page_height, tile_width, tile_height)]

\* tile sizes drawn: the small ones and two of the size of a screen tile;
\* calls that would return more than MaxTiles tiles are left out
TileSizes == (1..MaxTile) \cup {256, 300}

CalcTiles ==
    /\ rcall.op = "none"
    /\ \E page \in TilePages, tw \in TileSizes, th \in TileSizes :
         /\ page.null \/ TileCols(page, tw) * TileRows(page, th) <= MaxTiles
         /\ rcall' = [op |-> "calculate_tiles", page |-> page,
                      tile_width |-> tw, tile_height |-> th,
                      tiles |-> calculate_tiles(page, tw, th)]
    /\ UNCHANGED <<extVars, docVars, jobVars, useMupdf, cache_enabled_, cache_, rendered>>

\* ------------------------------------------- Renderer: sizes and coordinates

calculate_dimensions(page, dpi) ==
    IF page.null THEN [width |-> 0, height |-> 0]
    ELSE LET scale == FDiv(dpi, FromInt(72))
         IN  [width  |-> ToInt(FMul(Page_width(page), scale)),
              height |-> ToInt(FMul(Page_height(page), scale))]

CalcDimensions ==
    /\ rcall.op = "none"
    /\ \E page \in GeomPages, d \in Dpis :
            rcall' = [op |-> "calculate_dimensions", page |-> page, d |-> d,
                      out |-> calculate_dimensions(page, FromInt(d))]
    /\ UNCHANGED <<extVars, docVars, jobVars, useMupdf, cache_enabled_, cache_, rendered>>

page_to_pixel(page_point, dpi, page_height) ==
    LET scale == FDiv(dpi, FromInt(72))
    IN  [x |-> FMul(page_point.x, scale),
         y |-> FMul(FSub(page_height, page_point.y), scale)]

\* pixel_to_page scaling by dpi / 72 like page_to_pixel instead of by 72 / dpi
pixel_to_page_forward_scale(pixel_point, dpi, page_height) ==
    LET scale == FDiv(dpi, FromInt(72))
    IN  [x |-> FMul(pixel_point.x, scale),
         y |-> FSub(page_height, FMul(pixel_point.y, scale))]

pixel_to_page(pixel_point, dpi, page_height) ==
    LET scale == FDiv(FromInt(72), dpi)
    IN  [x |-> FMul(pixel_point.x, scale),
         y |-> FSub(page_height, FMul(pixel_point.y, scale))]

\* page heights (pt) and points drawn: the points k/GridN of the way across
\* a page of that height, and two points far outside any page
Heights == {792, 842, 2000}
FarCoords == {20000, 100000}
OnPage(h) == {FRat(k * h, GridN) : k \in 0..GridN} \cup {FRat(h, 3), FRat(h, 7)}
PointsFor(h) ==
    {[x |-> x, y |-> y] : x \in OnPage(h), y \in OnPage(h)}
        \cup {[x |-> FromInt(c), y |-> FromInt(c)] : c \in FarCoords}

PageToPixel ==
    /\ rcall.op = "none"
    /\ \E h \in Heights, d \in Dpis :
         \E p \in PointsFor(h) :
            rcall' = [op |-> "page_to_pixel", p |-> p, d |-> d, h |-> h,
                      out |-> page_to_pixel(p, FromInt(d), FromInt(h))]
    /\ UNCHANGED <<extVars, docVars, jobVars, useMupdf, cache_enabled_, cache_, rendered>>

\* the caller maps the pixel it got from page_to_pixel back to the page
PixelToPage ==
    /\ rcall.op = "page_to_pixel"
    /\ \E h \in Heights, d \in Dpis :
            rcall' = [op |-> "pixel_to_page", pixel |-> rcall.out, d |-> d,
                      h |-> h, from |-> rcall,
                      out |-> pixel_to_page(rcall.out, FromInt(d), FromInt(h))]
    /\ UNCHANGED <<extVars, docVars, jobVars, useMupdf, cache_enabled_, cache_, rendered>>

\* ------------------------------------------------- Renderer::render_page
MaxBufSize == 8
MaxRenders == 3

NoImage == [width |-> 0, height |-> 0, stride |-> 0, format |-> "none", size |-> 0]

Error(code) == [ok |-> FALSE, code |-> code, buffer |-> NoImage]
Ok(buffer) == [ok |-> TRUE, code |-> "Success", buffer |-> buffer]

\* RenderOptions: the fields render_page and its wrappers read or write
DefaultOptions ==
    [dpi |-> FromInt(150), color_mode |-> "RGB", render_transparent |-> FALSE,
     use_clip_rect |-> FALSE]

OptionsSet ==
    {[dpi |-> FromInt(d), color_mode |-> c, render_transparent |-> a,
      use_clip_rect |-> FALSE] :
        d \in {72, 144}, c \in {"RGB", "Grayscale", "CMYK"}, a \in BOOLEAN}

\* what the engine does in a call: "ok", "no_ctx" (fz_new_context gave no
\* context) or "throw" (MuPDF raised an error while drawing the page)
Envs == {"ok", "no_ctx", "throw"}

\* Page* arguments: nullptr, a page as Document::get_page makes it (null
\* handle), and two loaded pages of 1 x 1 pt and 2 x 1 pt
PageArgs == {NullPage, PageObj(0, 0, 0), PageObj(1, Den, Den), PageObj(2, 2 * Den, Den)}

\* components of a pixmap: those of the colorspace, plus alpha
Components(options) ==
    (CASE options.color_mode = "RGB" -> 3
       [] options.color_mode = "Grayscale" -> 1
       [] options.color_mode = "CMYK" -> 4
       [] OTHER -> 3)
    + (IF options.render_transparent THEN 1 ELSE 0)

\* the extent of fz_round_rect of a side [0, len * scale]: ceilf(x1 - 0.001f)
PixmapSide(len, scale) == CeilToInt(FSub(FMul(len, scale), FRat(1, 1000)))

\* the ImageBuffer filled from a pixmap of width x height pixels of n
\* components: stride = fz_pixmap_stride, size = stride * height
Image(width, height, n, alpha) ==
    [width |-> width, height |-> height, stride |-> width * n,
     format |-> IF alpha
                THEN (IF n = 4 THEN "RGBA32" ELSE "BGRA32")
                ELSE (IF n = 3 THEN "RGB24" ELSE "BGR24"),
     size |-> width * n * height]

PixmapAt(page, options, scale) ==
    Image(PixmapSide(Page_width(page), scale), PixmapSide(Page_height(page), scale),
          Components(options), options.render_transparent)

Pixmap(page, options) == PixmapAt(page, options, FDiv(options.dpi, FromInt(72)))

\* render_page without the test for a null page: the call reaches the engine
render_page_no_null_check(page, options, env) ==
    IF ~useMupdf THEN Error("NotImplemented")
    ELSE IF env = "no_ctx" THEN Error("RenderError")
    ELSE IF page.handle = 0 THEN Error("RenderError")
    ELSE IF env = "throw" THEN Error("RenderError")
    ELSE Ok(Pixmap(page, options))

render_page(page, options, env) ==
    IF page.null THEN Error("InvalidArgument")
    ELSE IF ~useMupdf THEN Error("NotImplemented")
    ELSE IF env = "no_ctx" THEN Error("RenderError")
    ELSE IF page.handle = 0 THEN Error("RenderError")
    ELSE IF env = "throw" THEN Error("RenderError")
    ELSE Ok(Pixmap(page, options))

\* the history of rasterized pages after a call that returned res
Rasterized(hist, page, res) == IF res.ok THEN Append(hist, page.handle) ELSE hist

\* A call with arguments `call` returns out; res is the result of the
\* render_page it made.  cache_ is neither read nor written.
Returns(call, out, page, res) ==
    /\ rcall' = [out |-> out] @@ call
    /\ rendered' = Rasterized(rendered, page, res)
    /\ UNCHANGED <<extVars, docVars, jobVars, useMupdf, cache_enabled_, cache_>>

\* a wrapper returns r.out, having rendered with the options r.options
WrapperReturns(call, r, page) ==
    Returns([used |-> r.options] @@ call, r.out, page, r.out)

PageReturns(call, res, page) == Returns(call, res, page, res)

RenderPageCall(page, options, env) ==
    PageReturns([op |-> "render_page", page |-> page, options |-> options,
                 env |-> env],
                render_page(page, options, env), page)

RenderPage ==
    /\ rcall.op = "none"
    /\ \E page \in PageArgs, options \in OptionsSet, env \in Envs :
            RenderPageCall(page, options, env)

\* ret: the value returned; written: the bytes memcpy stored in the caller's
\* buffer; img: the result of the inner render_page
CopyAlways(result) ==
    IF ~result.ok THEN [ret |-> FALSE, written |-> 0, img |-> result]
    ELSE [ret |-> TRUE, written |-> result.buffer.size, img |-> result]

CopyOut(result, buffer_size) ==
    IF ~result.ok THEN [ret |-> FALSE, written |-> 0, img |-> result]
    ELSE IF result.buffer.size > buffer_size
    THEN [ret |-> FALSE, written |-> 0, img |-> result]
    ELSE [ret |-> TRUE, written |-> result.buffer.size, img |-> result]

\* render_page_to_buffer copying the image whatever the size of the buffer
render_page_to_buffer_no_check(page, buffer_size, options, env) ==
    CopyAlways(render_page(page, options, env))

render_page_to_buffer(page, buffer_size, options, env) ==
    CopyOut(render_page(page, options, env), buffer_size)

BufferReturns(call, r, page) == Returns(call, r, page, r.img)

RenderPageToBuffer ==
    /\ rcall.op = "none"
    /\ \E page \in PageArgs, options \in OptionsSet, env \in Envs,
          buffer_size \in 0..MaxBufSize :
         BufferReturns([op |-> "render_page_to_buffer", page |-> page,
                        options |-> options, env |-> env,
                        buffer_size |-> buffer_size],
                       render_page_to_buffer(page, buffer_size, options, env), page)

\* ---------------------------------------------- Renderer: render_page wrappers
\* a division by zero (a page of width 0) gives a non-finite float
FInf == [sgn |-> 1, man |-> -1, exp |-> 0]
Finite(f) == f.man >= 0
Quot(a, b) == IF ~Finite(a) \/ ~Finite(b) \/ b.man = 0 THEN FInf ELSE FDiv(a, b)
Prod(a, b) == IF ~Finite(a) \/ ~Finite(b) THEN FInf ELSE FMul(a, b)
\* std::min(a, b): b if b < a, else a
FMin(a, b) == IF Finite(a) /\ Finite(b) /\ FLess(b, a) THEN b ELSE a

Scales == {FRat(1, 2), FromInt(1), FromInt(2)}
Sizes == {1, 2, 4}

\* render_page with the options a wrapper computed
RenderWith(page, options, env) ==
    [options |-> options, out |-> render_page(page, options, env)]

render_page_scaled(page, scale_x, scale_y, options, env) ==
    RenderWith(page,
               [options EXCEPT !.dpi = FMul(@, FDiv(FAdd(scale_x, scale_y), FromInt(2)))],
               env)

RenderPageScaled ==
    /\ rcall.op = "none"
    /\ \E page \in PageArgs, options \in OptionsSet, env \in Envs,
          scale_x \in Scales, scale_y \in Scales :
         WrapperReturns([op |-> "render_page_scaled", page |-> page,
                         options |-> options, env |-> env,
                         scale_x |-> scale_x, scale_y |-> scale_y],
                        render_page_scaled(page, scale_x, scale_y, options, env), page)

render_page_to_size(page, width, height, options, env) ==
    IF page.null THEN [options |-> options, out |-> Error("InvalidArgument")]
    ELSE RenderWith(page,
                    [options EXCEPT !.dpi =
                        Prod(FromInt(72),
                             FMin(Quot(FromInt(width), Page_width(page)),
                                  Quot(FromInt(height), Page_height(page))))],
                    env)

RenderPageToSize ==
    /\ rcall.op = "none"
    /\ \E page \in PageArgs, options \in OptionsSet, env \in Envs,
          width \in Sizes, height \in Sizes :
         WrapperReturns([op |-> "render_page_to_size", page |-> page,
                         options |-> options, env |-> env,
                         width |-> width, height |-> height],
                        render_page_to_size(page, width, height, options, env), page)

ThumbnailScale(scale_x, scale_y, maintain_aspect) ==
    IF maintain_aspect THEN FMin(scale_x, scale_y) ELSE scale_x

render_thumbnail(page, max_width, max_height, maintain_aspect, env) ==
    IF page.null THEN [options |-> DefaultOptions, out |-> Error("InvalidArgument")]
    ELSE RenderWith(page,
                    [DefaultOptions EXCEPT !.dpi =
                        Prod(FromInt(72),
                             ThumbnailScale(Quot(FromInt(max_width), Page_width(page)),
                                            Quot(FromInt(max_height), Page_height(page)),
                                            maintain_aspect))],
                    env)

RenderThumbnail ==
    /\ rcall.op = "none"
    /\ \E page \in PageArgs, env \in Envs, max_width \in Sizes,
          max_height \in Sizes, maintain_aspect \in BOOLEAN :
         WrapperReturns([op |-> "render_thumbnail", page |-> page, env |-> env,
                         max_width |-> max_width, max_height |-> max_height,
                         maintain_aspect |-> maintain_aspect],
                        render_thumbnail(page, max_width, max_height,
                                         maintain_aspect, env), page)

render_tile(page, tile, options, env) ==
    RenderWith(page, [options EXCEPT !.use_clip_rect = TRUE], env)

\* the tiles drawn: the first 1 x 1 tile of a 2 x 1 pt page
TileArgs == {TileAt(1, 2, FromInt(2), FromInt(1), 1, 1)}

RenderTile ==
    /\ rcall.op = "none"
    /\ \E page \in PageArgs, options \in OptionsSet, env \in Envs,
          tile \in TileArgs :
         WrapperReturns([op |-> "render_tile", page |-> page,
                         options |-> options, env |-> env, tile |-> tile],
                        render_tile(page, tile, options, env), page)

\* ------------------------------------------------- Renderer::render_pages
\* A ProgressCallback argument: absent (an empty std::function), or present;
\* answers[i] is what its i-th invocation returns.
NoCallback == [present |-> FALSE, answers |-> <<>>]
Callbacks(n) ==
    {NoCallback} \cup {[present |-> TRUE, answers |-> a] : a \in [1..n -> BOOLEAN]}

\* a page as Document::get_page returns it: its MuPDF handle is null
DocPage == PageObj(0, 0, 0)

CallbackEvent(i, total) == [ev |-> "callback", current |-> i - 1, total |-> total]
PageEvent(i, total) == [ev |-> "page", current |-> i - 1, total |-> total]

\* the body of the loop for the i-th index once the callback has let it run
RenderSlot(st, page_indices, options, envs, i) ==
    LET got == get_page(st.pages, page_indices[i])
        res == IF got.page # 0 THEN render_page(DocPage, options, envs[i])
               ELSE Error("InvalidArgument")
    IN  [results |-> Append(st.results, res),
         events  |-> Append(st.events, PageEvent(i, Len(page_indices))),
         pages   |-> got.pages]

\* the loop of render_pages going on after the callback returned false
RECURSIVE RenderLoopNoStop(_, _, _, _, _, _)
RenderLoopNoStop(st, page_indices, options, callback, envs, i) ==
    IF i > Len(page_indices) THEN st
    ELSE LET asked == IF callback.present
                      THEN [st EXCEPT !.events =
                              Append(@, CallbackEvent(i, Len(page_indices)))]
                      ELSE st
         IN  RenderLoopNoStop(RenderSlot(asked, page_indices, options, envs, i),
                              page_indices, options, callback, envs, i + 1)

\* the loop of render_pages leaving the loop at the first failed page
RECURSIVE RenderLoopStopOnError(_, _, _, _, _, _)
RenderLoopStopOnError(st, page_indices, options, callback, envs, i) ==
    IF i > Len(page_indices) THEN st
    ELSE LET asked == IF callback.present
                      THEN [st EXCEPT !.events =
                              Append(@, CallbackEvent(i, Len(page_indices)))]
                      ELSE st
             done  == RenderSlot(asked, page_indices, options, envs, i)
         IN  IF callback.present /\ ~callback.answers[i] THEN asked
             ELSE IF ~done.results[i].ok THEN done
             ELSE RenderLoopStopOnError(done, page_indices, options, callback,
                                        envs, i + 1)

\* the loop of render_pages from the i-th index on: the results pushed, the
\* callback invocations and page visits in order, and Document::pages_
RECURSIVE RenderLoop(_, _, _, _, _, _)
RenderLoop(st, page_indices, options, callback, envs, i) ==
    IF i > Len(page_indices) THEN st
    ELSE LET asked == IF callback.present
                      THEN [st EXCEPT !.events =
                              Append(@, CallbackEvent(i, Len(page_indices)))]
                      ELSE st
         IN  IF callback.present /\ ~callback.answers[i] THEN asked
             ELSE RenderLoop(RenderSlot(asked, page_indices, options, envs, i),
                             page_indices, options, callback, envs, i + 1)

render_pages(page_indices, options, callback, envs) ==
    RenderLoop([results |-> <<>>, events |-> <<>>, pages |-> pages_],
               page_indices, options, callback, envs, 1)

\* render_pages returns r.results and leaves Document::pages_ as r.pages
BatchReturns(call, r) ==
    /\ rcall' = [before |-> pages_, events |-> r.events, out |-> r.results] @@ call
    /\ pages_' = r.pages
    /\ UNCHANGED <<extVars, pageCount, jobVars, useMupdf, cache_enabled_, cache_, rendered>>

RenderPages ==
    /\ rcall.op = "none"
    /\ \E page_indices \in IndexLists, options \in {DefaultOptions} :
         \E callback \in Callbacks(Len(page_indices)),
            envs \in [1..Len(page_indices) -> Envs] :
            BatchReturns([op |-> "render_pages", doc_null |-> FALSE,
                          req |-> page_indices,
                          options |-> options, callback |-> callback,
                          envs |-> envs],
                         render_pages(page_indices, options, callback, envs))

\* 0 .. page_count() - 1
AllIndices == [i \in 1..pageCount |-> i - 1]

\* render_all_pages(doc, ...): doc is nullptr or the document
render_all_pages(doc_null, options, callback, envs) ==
    IF doc_null THEN [results |-> <<>>, events |-> <<>>, pages |-> pages_]
    ELSE render_pages(AllIndices, options, callback, envs)

RenderAllPages ==
    /\ rcall.op = "none"
    /\ \E doc_null \in BOOLEAN, options \in {DefaultOptions} :
         \E callback \in Callbacks(pageCount), envs \in [1..pageCount -> Envs] :
            BatchReturns([op |-> "render_all_pages", doc_null |-> doc_null,
                          req |-> AllIndices, options |-> options,
                          callback |-> callback, envs |-> envs],
                         render_all_pages(doc_null, options, callback, envs))

\* --------------------------------------------------- Renderer: the cache
\* pages rendered again and again with the default options
CachePages == {PageObj(1, Den, Den), PageObj(2, 2 * Den, Den)}

CacheRender ==
    /\ Len(rendered) < MaxRenders
    /\ \E page \in CachePages, env \in {"ok", "throw"} :
            RenderPageCall(page, DefaultOptions, env)

SetCacheEnabled ==
    /\ \E enabled \in BOOLEAN :
         /\ cache_enabled_' = enabled
         /\ rcall' = [op |-> "set_cache_enabled", enabled |-> enabled]
    /\ UNCHANGED <<extVars, docVars, jobVars, useMupdf, cache_, rendered>>

ClearCache ==
    /\ cache_' = {}
    /\ rcall' = [op |-> "clear_cache"]
    /\ UNCHANGED <<extVars, docVars, jobVars, useMupdf, cache_enabled_, rendered>>

InvalidatePage ==
    /\ \E page \in CachePages :
         /\ cache_' = cache_ \ {page.handle}
         /\ rcall' = [op |-> "invalidate_page", page |-> page]
    /\ UNCHANGED <<extVars, docVars, jobVars, useMupdf, cache_enabled_, rendered>>

\* ------------------------------------------------------ progressive render
\* The Renderer keeps no progressive-render state: the four calls return a
\* constant.  `after` is the call made just before.
start_progressive_render(page, options) == FALSE
continue_progressive_render == FALSE
get_progressive_buffer == Error("NotImplemented")

ProgressiveReturns(call, out) ==
    /\ rcall' = [out |-> out, after |-> rcall.op] @@ call
    /\ UNCHANGED <<extVars, docVars, jobVars, useMupdf, cache_enabled_, cache_, rendered>>

StartProgressiveRender ==
    \E page \in PageArgs, options \in OptionsSet :
        ProgressiveReturns([op |-> "start_progressive_render", page |-> page,
                            options |-> options],
                           start_progressive_render(page, options))

ContinueProgressiveRender ==
    ProgressiveReturns([op |-> "continue_progressive_render"],
                       continue_progressive_render)

GetProgressiveBuffer ==
    ProgressiveReturns([op |-> "get_progressive_buffer"], get_progressive_buffer)

CancelProgressiveRender ==
    ProgressiveReturns([op |-> "cancel_progressive_render"], "void")

\* ------------------------------------- Renderer: calls from several threads
\* A call on the shared Renderer is in progress from its Begin to AccessEnd;
\* in between it reads or writes one member of Renderer::Impl.
CacheSizes == {100, 200}
\* what std::thread::hardware_concurrency() may return (0: not computable)
HardwareThreads == {0, NumThreads}

Unlocked(op, member, write, arg) ==
    [op |-> op, member |-> member, write |-> write, locked |-> FALSE, arg |-> arg]
Locked(op, member, write, arg) ==
    [op |-> op, member |-> member, write |-> write, locked |-> TRUE, arg |-> arg]

\* a call that takes no lock
Begin(t, acc) ==
    /\ racc[t] = NoAccess
    /\ racc' = [racc EXCEPT ![t] = acc]
    /\ UNCHANGED <<docVars, jobVars, rendVars, viewVars, cache_size_mb_,
                   thread_count_, cache_mutex_>>

\* a call whose first statement is std::lock_guard lock(cache_mutex_)
BeginLocked(t, acc) ==
    /\ racc[t] = NoAccess
    /\ cache_mutex_ = 0
    /\ cache_mutex_' = t
    /\ racc' = [racc EXCEPT ![t] = acc]
    /\ UNCHANGED <<docVars, jobVars, rendVars, viewVars, cache_size_mb_,
                   thread_count_>>

SetCacheEnabledBegin(t) ==
    \E enabled \in BOOLEAN :
        Begin(t, Unlocked("set_cache_enabled", "cache_enabled_", TRUE, enabled))

IsCacheEnabledBegin(t) ==
    Begin(t, Unlocked("is_cache_enabled", "cache_enabled_", FALSE, 0))

SetCacheSizeBegin(t) ==
    \E size_mb \in CacheSizes :
        Begin(t, Unlocked("set_cache_size", "cache_size_mb_", TRUE, size_mb))

GetCacheSizeBegin(t) ==
    Begin(t, Unlocked("get_cache_size", "cache_size_mb_", FALSE, 0))

\* set_thread_count(count): count = 0 stores hardware_concurrency()
SetThreadCountBegin(t) ==
    \E count \in 0..NumThreads, hardware \in HardwareThreads :
        Begin(t, Unlocked("set_thread_count", "thread_count_", TRUE,
                          IF count = 0 THEN hardware ELSE count))

GetThreadCountBegin(t) ==
    \E hardware \in HardwareThreads :
        Begin(t, Unlocked("get_thread_count", "thread_count_", FALSE, hardware))

ClearCacheBegin(t) == BeginLocked(t, Locked("clear_cache", "cache_", TRUE, 0))

InvalidatePageBegin(t) ==
    \E page \in CachePages :
        BeginLocked(t, Locked("invalidate_page", "cache_", TRUE, page.handle))

\* the value a getter returns
Read(acc) ==
    CASE acc.op = "is_cache_enabled" -> cache_enabled_
      [] acc.op = "get_cache_size" -> cache_size_mb_
      [] acc.op = "get_thread_count" ->
            IF thread_count_ = 0 THEN acc.arg ELSE thread_count_
      [] OTHER -> "void"

\* the call of thread t stores or loads its member and returns; the
\* lock_guard, if any, releases cache_mutex_
Ends(t, acc) ==
    /\ acc # NoAccess
    /\ cache_enabled_' = IF acc.op = "set_cache_enabled" THEN acc.arg
                         ELSE cache_enabled_
    /\ cache_size_mb_' = IF acc.op = "set_cache_size" THEN acc.arg
                         ELSE cache_size_mb_
    /\ thread_count_' = IF acc.op = "set_thread_count" THEN acc.arg
                        ELSE thread_count_
    /\ cache_' = CASE acc.op = "clear_cache" -> {}
                   [] acc.op = "invalidate_page" -> cache_ \ {acc.arg}
                   [] OTHER -> cache_
    /\ cache_mutex_' = IF acc.locked THEN 0 ELSE cache_mutex_
    /\ racc' = [racc EXCEPT ![t] = NoAccess]
    /\ rcall' = [op |-> acc.op, thread |-> t, out |-> Read(acc)]
    /\ UNCHANGED <<docVars, jobVars, viewVars, useMupdf, rendered>>

AccessEnd(t) == Ends(t, racc[t])

\* --------------------------------------------- calls with a null argument
\* Calling a member function through a null Document* or Page* is undefined
\* behaviour: the call faults, or it returns having done nothing.
Returned(out) == [fault |-> FALSE, out |-> out]
NullDeref(out) == {[fault |-> TRUE, out |-> out], Returned(out)}

\* render_pages(nullptr, ...): doc->get_page is reached in the first turn of
\* the loop unless the callback ends it
render_pages_null_doc(page_indices, callback) ==
    IF page_indices = <<>> THEN {Returned(<<>>)}
    ELSE IF callback.present /\ ~callback.answers[1] THEN {Returned(<<>>)}
    ELSE NullDeref(<<>>)

\* queue_batch(nullptr, ...): doc->get_page is reached for the first index
queue_batch_null_doc(page_indices) ==
    IF page_indices = <<>> THEN {Returned(<<>>)} ELSE NullDeref(<<>>)

\* invalidate_page(nullptr): page->get_handle() under the lock
invalidate_page_null == NullDeref("void")

ThumbnailSlot(st, got, res) ==
    [results |-> IF got.page # 0 THEN Append(st.results, res) ELSE st.results,
     events  |-> st.events,
     pages   |-> got.pages]

\* the loop of render_all_thumbnails from page i - 1 on
RECURSIVE ThumbnailLoop(_, _, _, _, _, _)
ThumbnailLoop(st, max_width, max_height, callback, envs, i) ==
    IF i > pageCount THEN st
    ELSE IF callback.present /\ ~callback.answers[i]
    THEN [st EXCEPT !.events = Append(@, CallbackEvent(i, pageCount))]
    ELSE ThumbnailLoop(
            ThumbnailSlot(
                IF callback.present
                THEN [st EXCEPT !.events = Append(@, CallbackEvent(i, pageCount))]
                ELSE st,
                get_page(st.pages, i - 1),
                render_thumbnail(DocPage, max_width, max_height, TRUE, envs[i]).out),
            max_width, max_height, callback, envs, i + 1)

render_all_thumbnails(doc_null, max_width, max_height, callback, envs) ==
    IF doc_null THEN [results |-> <<>>, events |-> <<>>, pages |-> pages_]
    ELSE ThumbnailLoop([results |-> <<>>, events |-> <<>>, pages |-> pages_],
                       max_width, max_height, callback, envs, 1)

\* a call returns (or faults); `cache` and `created` are the cache and the
\* jobs as the call found them
NullCallReturns(call, r) ==
    /\ rcall' = [fault |-> r.fault, out |-> r.out, cache |-> cache_,
                 created |-> jobs] @@ call
    /\ UNCHANGED <<extVars, docVars, jobVars, useMupdf, cache_enabled_, cache_,
                   rendered>>

RenderPagesNullDoc ==
    /\ rcall.op = "none"
    /\ \E page_indices \in IndexLists :
         \E callback \in Callbacks(Len(page_indices)) :
            \E r \in render_pages_null_doc(page_indices, callback) :
               NullCallReturns([op |-> "render_pages", null |-> TRUE,
                                req |-> page_indices, callback |-> callback], r)

QueueBatchNullDoc ==
    /\ rcall.op = "none"
    /\ \E page_indices \in IndexLists :
         \E r \in queue_batch_null_doc(page_indices) :
            NullCallReturns([op |-> "queue_batch", null |-> TRUE,
                             req |-> page_indices], r)

InvalidatePageNull ==
    /\ rcall.op = "none"
    /\ \E r \in invalidate_page_null :
            NullCallReturns([op |-> "invalidate_page", null |-> TRUE], r)

RenderAllPagesNullDoc ==
    /\ rcall.op = "none"
    /\ \E callback \in Callbacks(pageCount), envs \in [1..pageCount -> Envs] :
         NullCallReturns([op |-> "render_all_pages", null |-> TRUE,
                          callback |-> callback],
                         Returned(render_all_pages(TRUE, DefaultOptions,
                                                   callback, envs).results))

AllThumbnailsReturn(call, r) ==
    /\ rcall' = [fault |-> FALSE, out |-> r.results, events |-> r.events,
                 cache |-> cache_, created |-> jobs] @@ call
    /\ pages_' = r.pages
    /\ UNCHANGED <<extVars, pageCount, jobVars, useMupdf, cache_enabled_, cache_,
                   rendered>>

RenderAllThumbnails ==
    /\ rcall.op = "none"
    /\ \E doc_null \in BOOLEAN, max_width \in Sizes, max_height \in Sizes :
         \E callback \in Callbacks(pageCount), envs \in [1..pageCount -> Envs] :
            AllThumbnailsReturn([op |-> "render_all_thumbnails",
                                 null |-> doc_null, max_width |-> max_width,
                                 max_height |-> max_height,
                                 callback |-> callback],
                                render_all_thumbnails(doc_null, max_width,
                                                      max_height, callback, envs))

CalcTilesNull ==
    /\ rcall.op = "none"
    /\ \E tw \in TileSizes, th \in TileSizes :
         NullCallReturns([op |-> "calculate_tiles", null |-> TRUE,
                          tile_width |-> tw, tile_height |-> th],
                         Returned(calculate_tiles(NullPage, tw, th)))

\* --------------------------------------------------------------- PDFViewer
\* The viewer's members as one record, with the Document's pages_ (pages),
\* handed from one function of the viewer to the next.
maxCacheSize_ == 10
MaxWidgets == 4
ViewModes == {"SinglePage", "Continuous", "FacingPages"}
Qualities == {"Draft", "Medium", "High"}
\* zoom arguments: below the range, 1.0, 1.005, above the range
Zooms == {ZoomDen \div 20, ZoomDen, ZoomDen + ZoomDen \div 200, 20 * ZoomDen}
PageIndexArgs == (-1)..(DocPages + 1)

Viewer ==
    [document_ |-> document_, currentPage_ |-> currentPage_, zoom_ |-> zoom_,
     renderQuality_ |-> renderQuality_, viewMode_ |-> viewMode_,
     pageCache_ |-> pageCache_, pageWidgets_ |-> pageWidgets_, pages |-> pages_]

\* document_->page_count()
page_count == pageCount
\* PDFViewer::pageCount()
Viewer_pageCount(v) == IF v.document_ THEN page_count ELSE 0

NewWidgets(n) == [i \in 1..n |-> NoPicture]

updateLayout(v) ==
    IF ~v.document_ THEN v
    ELSE CASE v.viewMode_ = "SinglePage" ->
                IF v.pageWidgets_ = <<>>
                THEN [v EXCEPT !.pageWidgets_ = NewWidgets(1)] ELSE v
           [] v.viewMode_ = "Continuous" ->
                [v EXCEPT !.pageWidgets_ = @ \o NewWidgets(page_count)]
           [] OTHER -> v

\* pageWidgets_[currentPage_]->setImage(image), if there is such a widget
SetImage(v, image) ==
    IF v.currentPage_ < Len(v.pageWidgets_)
    THEN [v EXCEPT !.pageWidgets_[v.currentPage_ + 1] = image] ELSE v

\* pageCache_.begin(): the entry of the least key
Begin_key(cache) == CHOOSE k \in DOMAIN cache : \A m \in DOMAIN cache : k <= m
Erase(cache, key) == [k \in DOMAIN cache \ {key} |-> cache[k]]
Insert(cache, key, image) ==
    [k \in DOMAIN cache \cup {key} |-> IF k = key THEN image ELSE cache[k]]

\* the cache after `pageCache_[currentPage_] = pixmap`, an entry erased first
\* when the cache is full
CachePut(cache, key, image) ==
    IF Cardinality(DOMAIN cache) >= maxCacheSize_
    THEN Insert(Erase(cache, Begin_key(cache)), key, image)
    ELSE Insert(cache, key, image)

\* the image of the current page rendered now
Picture(v) ==
    [page |-> v.currentPage_, zoom |-> v.zoom_, quality |-> v.renderQuality_]

ViewerOptions(v) ==
    [DefaultOptions EXCEPT !.dpi = FRat(72 * v.zoom_, ZoomDen)]

\* renderCurrentPage after the cache missed: got is what get_page returned,
\* result what render_page returned
RenderMiss(v, got, result) ==
    IF got.page = 0 THEN [v EXCEPT !.pages = got.pages]
    ELSE IF ~result.ok THEN [v EXCEPT !.pages = got.pages]
    ELSE [SetImage(v, Picture(v)) EXCEPT
             !.pages = got.pages,
             !.pageCache_ = CachePut(@, v.currentPage_, Picture(v))]

renderCurrentPage(v, env) ==
    IF ~v.document_ \/ v.currentPage_ < 0 \/ v.currentPage_ >= page_count THEN v
    ELSE IF v.currentPage_ \in DOMAIN v.pageCache_
    THEN SetImage(v, v.pageCache_[v.currentPage_])
    ELSE RenderMiss(v, get_page(v.pages, v.currentPage_),
                    render_page(DocPage, ViewerOptions(v), env))

setDocument(v, document, env) ==
    IF document
    THEN renderCurrentPage(
            updateLayout([v EXCEPT !.document_ = TRUE, !.currentPage_ = 0,
                                   !.pageCache_ = EmptyCache,
                                   !.pageWidgets_ = <<>>]), env)
    ELSE [v EXCEPT !.document_ = FALSE, !.currentPage_ = 0,
                   !.pageCache_ = EmptyCache, !.pageWidgets_ = <<>>]

\* goToPage once pageIndex has been brought into range
MoveTo(v, pageIndex, env) ==
    IF v.currentPage_ # pageIndex
    THEN renderCurrentPage([v EXCEPT !.currentPage_ = pageIndex], env)
    ELSE v

AtLeastZero(pageIndex) == IF pageIndex < 0 THEN 0 ELSE pageIndex
BelowCount(pageIndex) ==
    IF pageIndex >= page_count THEN page_count - 1 ELSE pageIndex

goToPage(v, pageIndex, env) ==
    IF ~v.document_ THEN v
    ELSE MoveTo(v, BelowCount(AtLeastZero(pageIndex)), env)

nextPage(v, env) == goToPage(v, v.currentPage_ + 1, env)
previousPage(v, env) == goToPage(v, v.currentPage_ - 1, env)
firstPage(v, env) == goToPage(v, 0, env)
lastPage(v, env) == IF v.document_ THEN goToPage(v, page_count - 1, env) ELSE v

ZoomInRange(zoom) ==
    IF zoom < ZoomDen \div 10 THEN ZoomDen \div 10
    ELSE IF zoom > 10 * ZoomDen THEN 10 * ZoomDen ELSE zoom

Abs(x) == IF x < 0 THEN -x ELSE x

\* setZoom once zoom has been brought into range
ZoomTo(v, zoom, env) ==
    IF Abs(v.zoom_ - zoom) * 100 > ZoomDen
    THEN renderCurrentPage(updateLayout([v EXCEPT !.zoom_ = zoom]), env)
    ELSE v

setZoom(v, zoom, env) == ZoomTo(v, ZoomInRange(zoom), env)

setViewMode(v, mode, env) ==
    IF v.viewMode_ # mode
    THEN renderCurrentPage(updateLayout([v EXCEPT !.viewMode_ = mode]), env)
    ELSE v

setRenderQuality(v, quality, env) ==
    IF v.renderQuality_ # quality
    THEN renderCurrentPage([v EXCEPT !.renderQuality_ = quality,
                                     !.pageCache_ = EmptyCache], env)
    ELSE v

\* a slot of the viewer returns, leaving the members as in v
ViewerBecomes(call, v) ==
    /\ Len(v.pageWidgets_) <= MaxWidgets
    /\ document_' = v.document_
    /\ currentPage_' = v.currentPage_
    /\ zoom_' = v.zoom_
    /\ renderQuality_' = v.renderQuality_
    /\ viewMode_' = v.viewMode_
    /\ pageCache_' = v.pageCache_
    /\ pageWidgets_' = v.pageWidgets_
    /\ pages_' = v.pages
    /\ rcall' = call
    /\ UNCHANGED <<concVars, pageCount, jobVars, useMupdf, cache_enabled_, cache_,
                   rendered>>

SetDocument ==
    \E document \in BOOLEAN, env \in Envs :
        ViewerBecomes([op |-> "setDocument", document |-> document],
                      setDocument(Viewer, document, env))

GoToPage ==
    \E pageIndex \in PageIndexArgs, env \in Envs :
        ViewerBecomes([op |-> "goToPage", pageIndex |-> pageIndex],
                      goToPage(Viewer, pageIndex, env))

NextPage ==
    \E env \in Envs : ViewerBecomes([op |-> "nextPage"], nextPage(Viewer, env))

PreviousPage ==
    \E env \in Envs :
        ViewerBecomes([op |-> "previousPage"], previousPage(Viewer, env))

FirstPage ==
    \E env \in Envs : ViewerBecomes([op |-> "firstPage"], firstPage(Viewer, env))

LastPage ==
    \E env \in Envs : ViewerBecomes([op |-> "lastPage"], lastPage(Viewer, env))

SetZoom ==
    \E zoom \in Zooms, env \in Envs :
        ViewerBecomes([op |-> "setZoom", zoom |-> zoom],
                      setZoom(Viewer, zoom, env))

SetViewMode ==
    \E mode \in ViewModes, env \in Envs :
        ViewerBecomes([op |-> "setViewMode", mode |-> mode],
                      setViewMode(Viewer, mode, env))

SetRenderQuality ==
    \E quality \in Qualities, env \in Envs :
        ViewerBecomes([op |-> "setRenderQuality", quality |-> quality],
                      setRenderQuality(Viewer, quality, env))

\* ------------------------------------------------------------ the system
\* Renderer::Impl() and PDFViewer::PDFViewer(): the members as constructed
ExtInit ==
    /\ cache_size_mb_ = 100
    /\ thread_count_ = 0
    /\ cache_mutex_ = 0
    /\ racc = [t \in Threads |-> NoAccess]
    /\ document_ = FALSE
    /\ currentPage_ = 0
    /\ zoom_ = ZoomDen
    /\ renderQuality_ = "Medium"
    /\ viewMode_ = "SinglePage"
    /\ pageCache_ = EmptyCache
    /\ pageWidgets_ = <<>>

Init ==
    /\ pageCount \in 0..MaxPages
    /\ pages_ = <<>>
    /\ jobs = <<>>
    /\ pc = [t \in Threads |-> "idle"]
    /\ tjob = [t \in Threads |-> 0]
    /\ notified = [t \in Threads |-> FALSE]
    /\ entry = [t \in Threads |-> NewJob]
    /\ ret = NoRet
    /\ cancelledPending = {}
    /\ batch = [req |-> <<>>, jobs |-> <<>>, served |-> <<>>, created |-> 0]
    /\ lastCall = [op |-> "none", val |-> 0]
    /\ useMupdf = TRUE
    /\ cache_enabled_ = TRUE
    /\ cache_ = {}
    /\ rendered = <<>>
    /\ rcall = [op |-> "none"]
    /\ ExtInit

\* The RenderJob protocol: jobs are queued one by one and client threads
\* wait on, cancel and collect them.
Next ==
    \/ QueueRender
    \/ \E t \in Threads : WaitCall(t)
    \/ \E t \in Threads : WaitWake(t)
    \/ \E t \in Threads : WaitTimeout(t)
    \/ \E t \in Threads : Cancel(t)
    \/ \E t \in Threads : GetResultCall(t)
    \/ \E t \in Threads : GetResultFinish(t)

Spec == Init /\ [][Next]_vars

\* Scheduling: a notified or timed-out waiter is eventually run again, and a
\* thread inside get_result() eventually takes the lock.  Client calls
\* (queue, cancel, wait, get_result) are not obliged to happen.
Fairness ==
    \A t \in Threads :
      /\ WF_vars(WaitWake(t))
      /\ WF_vars(WaitTimeout(t))
      /\ WF_vars(GetResultFinish(t))

FairSpec == Init /\ [][Next]_vars /\ Fairness

\* The AsyncRenderer front end: batches are queued over the document, the
\* queue is queried and waited for, and clients cancel jobs.
BatchNext ==
    \/ QueueBatch
    \/ PendingCount
    \/ CancelAll
    \/ WaitAll
    \/ \E t \in Threads : Cancel(t)

BatchSpec == Init /\ [][BatchNext]_vars

\* The geometry functions of Renderer are pure and static: a behaviour is one
\* call (for the coordinate maps, a call and its inverse) on arguments drawn
\* from the bounded sets, on either build.
GeomInit ==
    /\ pageCount = 0
    /\ pages_ = <<>>
    /\ jobs = <<>>
    /\ pc = [t \in Threads |-> "idle"]
    /\ tjob = [t \in Threads |-> 0]
    /\ notified = [t \in Threads |-> FALSE]
    /\ entry = [t \in Threads |-> NewJob]
    /\ ret = NoRet
    /\ cancelledPending = {}
    /\ batch = [req |-> <<>>, jobs |-> <<>>, served |-> <<>>, created |-> 0]
    /\ lastCall = [op |-> "none", val |-> 0]
    /\ useMupdf \in BOOLEAN
    /\ cache_enabled_ = TRUE
    /\ cache_ = {}
    /\ rendered = <<>>
    /\ rcall = [op |-> "none"]
    /\ ExtInit

GeomNext ==
    \/ CalcTiles
    \/ CalcDimensions
    \/ PageToPixel
    \/ PixelToPage

GeomSpec == GeomInit /\ [][GeomNext]_vars

\* Renderer calls: a behaviour is one call of a render function on arguments
\* drawn from the bounded sets, on either build; a document has pages only
\* when built with MuPDF.
RenderInit ==
    /\ useMupdf \in BOOLEAN
    /\ pageCount \in (IF useMupdf THEN 0..MaxPages ELSE {0})
    /\ pages_ = <<>>
    /\ jobs = <<>>
    /\ pc = [t \in Threads |-> "idle"]
    /\ tjob = [t \in Threads |-> 0]
    /\ notified = [t \in Threads |-> FALSE]
    /\ entry = [t \in Threads |-> NewJob]
    /\ ret = NoRet
    /\ cancelledPending = {}
    /\ batch = [req |-> <<>>, jobs |-> <<>>, served |-> <<>>, created |-> 0]
    /\ lastCall = [op |-> "none", val |-> 0]
    /\ cache_enabled_ = TRUE
    /\ cache_ = {}
    /\ rendered = <<>>
    /\ rcall = [op |-> "none"]
    /\ ExtInit

RenderNext ==
    \/ RenderPage
    \/ RenderPageToBuffer
    \/ RenderPageScaled
    \/ RenderPageToSize
    \/ RenderThumbnail
    \/ RenderTile
    \/ RenderPages
    \/ RenderAllPages

RenderSpec == RenderInit /\ [][RenderNext]_vars

\* One Renderer rendering loaded pages again and again, with the cache
\* controls called in between.
CacheNext ==
    \/ CacheRender
    \/ SetCacheEnabled
    \/ ClearCache
    \/ InvalidatePage

CacheSpec == RenderInit /\ [][CacheNext]_vars

\* One Renderer on which the progressive-render calls are made in any order.
ProgressiveNext ==
    \/ StartProgressiveRender
    \/ ContinueProgressiveRender
    \/ GetProgressiveBuffer
    \/ CancelProgressiveRender

ProgressiveSpec == RenderInit /\ [][ProgressiveNext]_vars

\* One Document whose pages are requested by index, in any order.
DocInit ==
    /\ useMupdf \in BOOLEAN
    /\ pageCount \in (IF useMupdf THEN 0..DocPages ELSE {0})
    /\ pages_ = <<>>
    /\ jobs = <<>>
    /\ pc = [t \in Threads |-> "idle"]
    /\ tjob = [t \in Threads |-> 0]
    /\ notified = [t \in Threads |-> FALSE]
    /\ entry = [t \in Threads |-> NewJob]
    /\ ret = NoRet
    /\ cancelledPending = {}
    /\ batch = [req |-> <<>>, jobs |-> <<>>, served |-> <<>>, created |-> 0]
    /\ lastCall = [op |-> "none", val |-> 0]
    /\ cache_enabled_ = TRUE
    /\ cache_ = {}
    /\ rendered = <<>>
    /\ rcall = [op |-> "none"]
    /\ ExtInit

DocNext == GetPage

DocSpec == DocInit /\ [][DocNext]_vars

\* One Renderer shared by the client threads, which call its cache and
\* thread-count controls concurrently.
ThreadNext ==
    \/ \E t \in Threads : SetCacheEnabledBegin(t)
    \/ \E t \in Threads : IsCacheEnabledBegin(t)
    \/ \E t \in Threads : SetCacheSizeBegin(t)
    \/ \E t \in Threads : GetCacheSizeBegin(t)
    \/ \E t \in Threads : SetThreadCountBegin(t)
    \/ \E t \in Threads : GetThreadCountBegin(t)
    \/ \E t \in Threads : ClearCacheBegin(t)
    \/ \E t \in Threads : InvalidatePageBegin(t)
    \/ \E t \in Threads : AccessEnd(t)

ThreadSpec == RenderInit /\ [][ThreadNext]_vars

\* One call of a Renderer or AsyncRenderer operation that takes a Document*
\* or a Page*, made with nullptr.
NullNext ==
    \/ RenderPagesNullDoc
    \/ RenderAllPagesNullDoc
    \/ RenderAllThumbnails
    \/ CalcTilesNull
    \/ InvalidatePageNull
    \/ QueueBatchNullDoc

NullSpec == RenderInit /\ [][NullNext]_vars

\* One PDFViewer given a Document (or none) and driven through its slots.
ViewerNext ==
    \/ SetDocument
    \/ GoToPage
    \/ NextPage
    \/ PreviousPage
    \/ FirstPage
    \/ LastPage
    \/ SetZoom
    \/ SetViewMode
    \/ SetRenderQuality

ViewerSpec == DocInit /\ [][ViewerNext]_vars

\* =================================================================== claims
\* `ret` is the most recent return of a RenderJob call, and every action that
\* writes a job (cancel, get_result) records its own return there: while `ret`
\* holds the return of a wait(), the job is as that wait() left it.

WaitReturned == ret.op = "wait"
GetResultReturned == ret.op = "get_result"

\* C1: a job that is in a terminal state (Completed, Failed, Cancelled) keeps
\* its status and its stored result in every later step, whatever cancel(),
\* wait() and get_result() calls follow.
C1_TerminalIsFinal ==
    [][\A j \in JobIds :
         IsTerminal(jobs[j].status) =>
           /\ jobs'[j].status = jobs[j].status
           /\ jobs'[j].result = jobs[j].result]_vars

\* C1 witness: cancel() was called on a job that was already Cancelled, and a
\* get_result() on a Cancelled job is about to read it.
C1_Witness ==
    /\ ret.op = "cancel"
    /\ ret.was = "Cancelled"
    /\ jobs[ret.job].status = "Cancelled"
    /\ \E t \in Threads : pc[t] = "gr_lock" /\ tjob[t] = ret.job

\* C2: a job that cancel() was called on while it was Pending is Cancelled,
\* stays so, and a get_result() on it returns RenderError and no buffer.
C2_CancelPending ==
    \A j \in cancelledPending :
      /\ jobs[j].status = "Cancelled"
      /\ jobs[j].result = NullBuf
      /\ (GetResultReturned /\ ret.job = j) =>
           (~ret.ok /\ ret.code = "RenderError" /\ ret.buffer = NullBuf)

\* C2 witness: get_result() has returned on a job cancelled while Pending.
C2_Witness ==
    /\ GetResultReturned
    /\ ret.job \in cancelledPending

\* C3: after wait_all() has returned, every job the preceding queue_batch
\* returned is in a terminal state, and pending_count() is 0.
C3_WaitAllTerminal ==
    lastCall.op = "wait_all" =>
      /\ \A i \in 1..Len(batch.jobs) : IsTerminal(jobs[batch.jobs[i]].status)
      /\ pending_count = 0

\* C4: a queued job that is Pending is eventually Completed or Failed, unless
\* it is cancelled.
C4_EventuallyDone ==
    \A j \in 1..MaxJobs :
      (j \in JobIds /\ jobs[j].status = "Pending")
        ~> (j \in JobIds /\ IsTerminal(jobs[j].status))

\* C5: get_result() returns only on a job in a terminal state; it returns a
\* buffer exactly when that state is Completed, and RenderError otherwise.
C5_GetResult ==
    GetResultReturned =>
      /\ IsTerminal(ret.at)
      /\ (ret.ok /\ ret.buffer # NullBuf) <=> (ret.at = "Completed")
      /\ ret.at \in {"Failed", "Cancelled"} =>
           (~ret.ok /\ ret.code = "RenderError")

\* C5 witness: get_result() has returned on a Cancelled job that the caller
\* had to wait for.
C5_Witness ==
    /\ GetResultReturned
    /\ ret.at = "Cancelled"
    /\ ~ret.ok

\* C6: wait() returns true exactly when the job is terminal as it returns; a
\* wait with timeout_ms < 0 returns only true; a wait with timeout_ms >= 0
\* returns false exactly when its timeout elapsed with the job not terminal.
C6_WaitValue ==
    WaitReturned =>
      /\ ret.val = IsTerminal(jobs[ret.job].status)
      /\ ~ret.timed => ret.val
      /\ ~ret.val <=> (ret.timed /\ ret.elapsed
                         /\ ~IsTerminal(jobs[ret.job].status))

\* C6 witness: a wait_for whose timeout elapsed after the job was cancelled
\* has returned true.
C6_Witness ==
    /\ WaitReturned
    /\ ret.timed /\ ret.elapsed /\ ret.val
    /\ ret.before.status = "Pending"

\* C6 second witness state, used by C10: a wait has timed out and returned false.
WaitTimedOut == WaitReturned /\ ~ret.val

\* C7: a thread blocked in wait() on a job that has become terminal returns
\* from it, with the value true.
C7_NoLostWakeup ==
    \A t \in Threads :
      /\ (pc[t] \in {"wait", "wait_for"} /\ IsTerminal(jobs[tjob[t]].status))
           ~> (WaitReturned /\ ret.t = t /\ ret.val)
      /\ (pc[t] = "gr_wait" /\ IsTerminal(jobs[tjob[t]].status))
           ~> (pc[t] = "gr_lock")

\* C7 witness: a thread is blocked in an untimed wait() on a job that another
\* thread has just cancelled.
C7_Witness ==
    /\ ret.op = "cancel"
    /\ ret.was = "Pending"
    /\ \E t \in Threads :
         /\ t # ret.t
         /\ pc[t] = "wait"
         /\ tjob[t] = ret.job
         /\ jobs[ret.job].status = "Cancelled"

\* C10: a wait() that timed out left the job as it was when the wait began:
\* same status, progress and result.
C10_TimeoutLeavesJob ==
    WaitTimedOut => jobs[ret.job] = ret.before

\* C10 witness: a wait_for on a Pending job has timed out.
C10_Witness ==
    /\ WaitTimedOut
    /\ ret.timed /\ ret.elapsed
    /\ jobs[ret.job].status = "Pending"

\* C9: queue_batch returns one job per requested index whose page exists, in
\* request order, each a job of its own, and creates nothing for the others.
PageExists(index) == get_page(pages_, index).page # 0

C9_BatchJobs ==
    /\ batch.served = SelectSeq(batch.req, PageExists)
    /\ Len(batch.jobs) = Len(batch.served)
    /\ batch.created = Len(batch.jobs)
    /\ \A i \in 1..Len(batch.jobs) : batch.jobs[i] \in JobIds
    /\ \A i, k \in 1..Len(batch.jobs) : i < k => batch.jobs[i] < batch.jobs[k]

\* C9 witness: a batch request naming a missing page and an existing one got
\* exactly one job.
C9_Witness ==
    /\ Len(batch.req) = 2
    /\ ~PageExists(batch.req[1])
    /\ PageExists(batch.req[2])
    /\ Len(batch.jobs) = 1

\* ------------------------------------------------------- geometry (GeomSpec)

\* the size Page::width / Page::height report for the page, in 1/Den pt
RealW(page) == IF ~useMupdf THEN 595 * Den ELSE IF page.handle = 0 THEN 0 ELSE page.wq
RealH(page) == IF ~useMupdf THEN 842 * Den ELSE IF page.handle = 0 THEN 0 ELSE page.hq

TilesReturned == rcall.op = "calculate_tiles" /\ ~rcall.page.null

\* a tile's edges in 1/Den pt (the edges are whole numbers of points)
X0(t) == ToInt(t.page_rect.x0) * Den
X1(t) == ToInt(t.page_rect.x1) * Den
Y0(t) == ToInt(t.page_rect.y0) * Den
Y1(t) == ToInt(t.page_rect.y1) * Den

\* the cell [cx, cx+1) x [cy, cy+1) of the 1/Den pt grid lies in tile t
InTile(t, cx, cy) == X0(t) <= cx /\ cx < X1(t) /\ Y0(t) <= cy /\ cy < Y1(t)

\* Coverage is constant between tile edges: the cells next to an edge and
\* the first and last cell of the page decide it.
EdgeCells(edges, size) ==
    {c \in edges \cup {e - 1 : e \in edges} \cup {0, size - 1} : 0 <= c /\ c < size}

XCells == EdgeCells({X0(rcall.tiles[i]) : i \in DOMAIN rcall.tiles}
                        \cup {X1(rcall.tiles[i]) : i \in DOMAIN rcall.tiles},
                    RealW(rcall.page))
YCells == EdgeCells({Y0(rcall.tiles[i]) : i \in DOMAIN rcall.tiles}
                        \cup {Y1(rcall.tiles[i]) : i \in DOMAIN rcall.tiles},
                    RealH(rcall.page))

\* C12: the page_rects returned by calculate_tiles exactly partition
\* [0,W) x [0,H): no rectangle extends outside the page and every point of
\* the page lies in exactly one rectangle, for any tile size >= 1 and any
\* page size, whole or not.
C12_TilesPartition ==
    TilesReturned =>
        /\ \A i \in DOMAIN rcall.tiles :
              /\ 0 <= X0(rcall.tiles[i]) /\ X1(rcall.tiles[i]) <= RealW(rcall.page)
              /\ 0 <= Y0(rcall.tiles[i]) /\ Y1(rcall.tiles[i]) <= RealH(rcall.page)
        /\ \A cx \in XCells, cy \in YCells :
              Cardinality({i \in DOMAIN rcall.tiles :
                              InTile(rcall.tiles[i], cx, cy)}) = 1

\* C13: no tile returned by calculate_tiles has a zero-width or zero-height
\* page_rect unless that dimension of the page is zero, the last column and
\* row included.
C13_NoEmptyTile ==
    TilesReturned =>
        \A i \in DOMAIN rcall.tiles :
            /\ RealW(rcall.page) > 0 => X1(rcall.tiles[i]) > X0(rcall.tiles[i])
            /\ RealH(rcall.page) > 0 => Y1(rcall.tiles[i]) > Y0(rcall.tiles[i])

\* round(n / m), halves up, n >= 0, m > 0
RoundDiv(n, m) == (2 * n + m) \div (2 * m)

\* C14: for a non-null page of size w x h and a DPI d > 0,
\* calculate_dimensions gives width = round(w*d/72) and
\* height = round(h*d/72), rounding to nearest.
C14_Dimensions ==
    (rcall.op = "calculate_dimensions" /\ ~rcall.page.null) =>
        /\ rcall.out.width = RoundDiv(RealW(rcall.page) * rcall.d, 72 * Den)
        /\ rcall.out.height = RoundDiv(RealH(rcall.page) * rcall.d, 72 * Den)

\* |a - b| <= 1e-3, as a float comparison
Tolerance == FRat(1, 1000)
Within(a, b) ==
    LET diff == FSub(a, b)
    IN  ~FLess(Tolerance, [diff EXCEPT !.sgn = 1])

\* a point was mapped to pixels and back with the same dpi and page height
RoundTrip ==
    /\ rcall.op = "pixel_to_page"
    /\ rcall.d = rcall.from.d
    /\ rcall.h = rcall.from.h

\* 0 <= c <= lim
InRange(c, lim) == ~FLess(c, FZero) /\ ~FLess(FromInt(lim), c)

MaxCoord == 2000

RoundTripOnPage ==
    /\ RoundTrip
    /\ rcall.h <= MaxCoord
    /\ InRange(rcall.from.p.x, MaxCoord)
    /\ InRange(rcall.from.p.y, rcall.h)

\* C15 as stated: pixel_to_page(page_to_pixel(p, d, h), d, h) equals p within
\* 1e-3 for every point p, every d > 0 and every h > 0.
C15_RoundTripAnyPoint ==
    RoundTrip =>
        /\ Within(rcall.out.x, rcall.from.p.x)
        /\ Within(rcall.out.y, rcall.from.p.y)

\* C15: pixel_to_page(page_to_pixel(p, d, h), d, h) equals p within 1e-3 for
\* every point p on a page of height h <= 2000 pt (0 <= x <= 2000,
\* 0 <= y <= h) and every d from 72 to 300.
C15_RoundTripOnPage ==
    RoundTripOnPage =>
        /\ Within(rcall.out.x, rcall.from.p.x)
        /\ Within(rcall.out.y, rcall.from.p.y)

\* a round trip on the page that float rounding made inexact
C15_Witness ==
    /\ RoundTripOnPage
    /\ rcall.out # rcall.from.p
    /\ rcall.from.p.y.man # 0

\* ----------------------------------------------------- the cache (CacheSpec)

\* C16: with the cache enabled and bounded to N >= 1 entries, rendering
\* evicts only the least recently used entry, so the page render_page has
\* just rendered is held by the cache (and N+1 distinct renders leave N
\* entries behind).
C16_CacheKeepsRecent ==
    (cache_enabled_ /\ rcall.op = "render_page" /\ rcall.out.ok) =>
        rcall.page.handle \in cache_

\* ------------------------------------------------- render calls (RenderSpec)

ToBuffer == rcall.op = "render_page_to_buffer"

\* C17: render_page_to_buffer returns false and writes nothing when
\* buffer_size is smaller than the byte count of the rendered image; it
\* writes only when it returns true, and then exactly the image's byte count.
C17_BufferTooSmall ==
    ToBuffer =>
        /\ (rcall.out.img.ok /\ rcall.buffer_size < rcall.out.img.buffer.size) =>
                (~rcall.out.ret /\ rcall.out.written = 0)
        /\ rcall.out.written > 0 => rcall.out.ret
        /\ rcall.out.ret => rcall.out.written = rcall.out.img.buffer.size

\* the buffer is one byte smaller than the image rendered for it
C17_Witness ==
    /\ ToBuffer
    /\ rcall.out.img.ok
    /\ rcall.buffer_size = rcall.out.img.buffer.size - 1
    /\ ~rcall.out.ret

NullPageCall ==
    /\ rcall.op \in {"render_page", "render_page_scaled", "render_page_to_size",
                     "render_thumbnail", "render_tile"}
    /\ rcall.page.null

\* C18: render_page with a null page returns the error InvalidArgument on
\* every build and for every RenderOptions value, and so do render_page_scaled,
\* render_page_to_size, render_thumbnail and render_tile.
C18_NullPage ==
    NullPageCall => (~rcall.out.ok /\ rcall.out.code = "InvalidArgument")

\* a wrapper without a test of its own, on the build without MuPDF
C18_Witness ==
    /\ NullPageCall
    /\ rcall.op = "render_tile"
    /\ ~useMupdf
    /\ rcall.out.code = "InvalidArgument"

\* a batch call on a document
Batch == rcall.op \in {"render_pages", "render_all_pages"} /\ ~rcall.doc_null

Total == Len(rcall.req)

\* the positions at which the callback answers false
Refusals == {i \in 1..Total : rcall.callback.present /\ ~rcall.callback.answers[i]}

\* the first of them, or Total + 1
StopAt == IF Refusals = {} THEN Total + 1
          ELSE CHOOSE i \in Refusals : \A j \in Refusals : i <= j

\* the result of the k-th requested index taken alone
ExpectedSlot(k) ==
    IF rcall.req[k] >= 0 /\ rcall.req[k] < pageCount
    THEN render_page(DocPage, rcall.options, rcall.envs[k])
    ELSE Error("InvalidArgument")

\* C19 as stated: the callback is invoked after each page has been rendered,
\* and when it returns false the batch stops with the results of the pages up
\* to and including the one that preceded that invocation.
C19_CallbackAfterPage ==
    (Batch /\ rcall.callback.present) =>
        /\ \A k \in 1..Len(rcall.out) :
              /\ rcall.events[2 * k - 1] = PageEvent(k, Total)
              /\ rcall.events[2 * k] = CallbackEvent(k, Total)
        /\ Len(rcall.out) = Min(StopAt, Total)
        /\ \A k \in 1..Len(rcall.out) : rcall.out[k] = ExpectedSlot(k)

\* C19: the callback is invoked before each page is rendered, and when it
\* returns false the batch stops without rendering that page: the list
\* returned is the prefix of the full result list with the result of every
\* position whose invocation returned true, shorter than the request, with
\* no entry for the remainder; nothing is invoked after the last page.
C19_CallbackBeforePage ==
    (Batch /\ rcall.callback.present) =>
        /\ Len(rcall.out) = StopAt - 1
        /\ \A k \in 1..Len(rcall.out) :
              /\ rcall.events[2 * k - 1] = CallbackEvent(k, Total)
              /\ rcall.events[2 * k] = PageEvent(k, Total)
              /\ rcall.out[k] = ExpectedSlot(k)
        /\ Len(rcall.events) = 2 * Len(rcall.out) + (IF StopAt <= Total THEN 1 ELSE 0)
        /\ StopAt <= Total =>
              rcall.events[Len(rcall.events)] = CallbackEvent(StopAt, Total)

\* the callback lets the first of two pages through and stops the second
C19_Witness ==
    /\ Batch
    /\ rcall.callback.present
    /\ rcall.callback.answers = <<TRUE, FALSE>>
    /\ Len(rcall.out) = 1

\* C20: when the callback is absent or always returns true, render_pages
\* returns one result per entry of page_indices, in request order; an index
\* out of range or a page that fails to render yields an error in its own
\* slot and the later indices are still rendered.
C20_SlotPerIndex ==
    (Batch /\ Refusals = {}) =>
        /\ Len(rcall.out) = Total
        /\ \A k \in 1..Total : rcall.out[k] = ExpectedSlot(k)

\* an index out of range followed by a page of the document
C20_Witness ==
    /\ Batch
    /\ ~rcall.callback.present
    /\ rcall.req = <<-1, 0>>
    /\ pageCount = 1
    /\ Len(rcall.out) = 2
    /\ rcall.out[1].code = "InvalidArgument"
    /\ rcall.out[2].code = "RenderError"

\* ImageBuffer::bytes_per_pixel of a declared format
bytes_per_pixel(format) ==
    CASE format \in {"RGB24", "BGR24"} -> 3
      [] format \in {"RGBA32", "BGRA32"} -> 4
      [] format \in {"Gray8", "Mono1"} -> 1
      [] OTHER -> 0

\* C21: every ImageBuffer a successful render_page returns has
\* size = stride * height and stride >= width * bytes_per_pixel of the format
\* it declares, for every color_mode and render_transparent setting.
C21_BufferShape ==
    (rcall.op = "render_page" /\ rcall.out.ok) =>
        /\ rcall.out.buffer.size = rcall.out.buffer.stride * rcall.out.buffer.height
        /\ rcall.out.buffer.stride >=
              rcall.out.buffer.width * bytes_per_pixel(rcall.out.buffer.format)

\* the option fields a wrapper must hand on unchanged
SameButDpi(a, b) == [a EXCEPT !.dpi = b.dpi] = b

\* C22: render_page_scaled(page, s, s, options) renders at 72 * s whatever
\* options.dpi is, render_page_to_size renders a page at
\* 72 * min(width / page_width, height / page_height), and both hand every
\* other option field to render_page unchanged.
C22_EffectiveDpi ==
    /\ (rcall.op = "render_page_scaled" /\ rcall.scale_x = rcall.scale_y) =>
          /\ rcall.used.dpi = FMul(FromInt(72), rcall.scale_x)
          /\ SameButDpi(rcall.options, rcall.used)
    /\ (rcall.op = "render_page_to_size" /\ ~rcall.page.null) =>
          /\ rcall.used.dpi =
                Prod(FromInt(72), FMin(Quot(FromInt(rcall.width), Page_width(rcall.page)),
                                       Quot(FromInt(rcall.height), Page_height(rcall.page))))
          /\ SameButDpi(rcall.options, rcall.used)

\* C23: a Renderer has at most one progressive-render session:
\* start_progressive_render on a non-null page begins one (the session leaves
\* Idle, the call reports it started), and after cancel_progressive_render
\* get_progressive_buffer returns no buffer.
C23_ProgressiveSession ==
    /\ (rcall.op = "start_progressive_render" /\ ~rcall.page.null) => rcall.out = TRUE
    /\ (rcall.op = "get_progressive_buffer" /\ rcall.after = "cancel_progressive_render") =>
          ~rcall.out.ok

GetPageInRange == rcall.op = "get_page" /\ rcall.index >= 0 /\ rcall.index < pageCount
HeldBefore(i) == i <= Len(rcall.before) /\ rcall.before[i] # 0

\* C24: Document::get_page(index) returns null for index < 0 and for
\* index >= page_count(); for an index in range it returns a non-null Page, the
\* Page every earlier call for that index returned, and the Pages of the other
\* indices stay where they are, in whatever order the indices are requested.
C24_StablePages ==
    rcall.op = "get_page" =>
        /\ ~GetPageInRange => (rcall.out = 0 /\ pages_ = rcall.before)
        /\ GetPageInRange =>
              /\ rcall.out # 0
              /\ pages_[rcall.index + 1] = rcall.out
              /\ \A i \in 1..Len(rcall.before) :
                    HeldBefore(i) => pages_[i] = rcall.before[i]

\* a page is requested again after the pages of two other indices were made
C24_Witness ==
    /\ GetPageInRange
    /\ HeldBefore(rcall.index + 1)
    /\ Allocated(rcall.before) = 3
    /\ rcall.before[rcall.index + 1] = 1
    /\ rcall.before[1] # 1

\* two calls in progress on the same member, one of them writing it, not
\* both under cache_mutex_
Conflict(a, b) ==
    /\ a # NoAccess /\ b # NoAccess
    /\ a.member = b.member
    /\ a.write \/ b.write
    /\ ~(a.locked /\ b.locked)

\* C25: the cache is the only Renderer state written after construction,
\* every access to it is made holding the cache mutex, and no two threads
\* access the same Renderer member without synchronisation when one of them
\* writes it.
C25_NoDataRace ==
    /\ \A t \in Threads :
          racc[t] # NoAccess =>
              /\ racc[t].write => racc[t].member = "cache_"
              /\ racc[t].member = "cache_" => cache_mutex_ = t
    /\ \A t1, t2 \in Threads : t1 # t2 => ~Conflict(racc[t1], racc[t2])

NullCall == rcall.op # "none" /\ rcall.null

\* C26: render_pages, render_all_pages, render_all_thumbnails,
\* calculate_tiles, invalidate_page and queue_batch called with a null
\* argument do not fault: they return an error or an empty result and leave
\* the cache and the jobs as they were.
C26_NullArguments ==
    NullCall =>
        /\ ~rcall.fault
        /\ rcall.out \in {<<>>, "void"}
        /\ cache_ = rcall.cache
        /\ jobs = rcall.created

Navigated ==
    rcall.op \in {"goToPage", "nextPage", "previousPage", "firstPage", "lastPage"}

\* C28: after any goToPage, nextPage, previousPage, firstPage or lastPage
\* the current page index satisfies 0 <= currentPage() < max(1, pageCount()),
\* a document of zero pages included.
C28_CurrentPageInRange ==
    Navigated =>
        /\ 0 <= currentPage_
        /\ currentPage_ < (IF Viewer_pageCount(Viewer) > 1
                           THEN Viewer_pageCount(Viewer) ELSE 1)

====
